---- MODULE Spec2Model ----
(***************************************************************************)
(* ESP-C (power generation) controller of the PLTN simulator:              *)
(* src/esp_c/src/main.cpp.  One pass of loop() is four steps               *)
(*   recv  -> parse -> control -> send                                     *)
(* (recvDataFromESP_B, parseDataFromESP_B, the Mode derivation with the    *)
(* state machine, the periodic send with delay(10)).  The only other       *)
(* actor is the upstream node, which puts bytes on Serial2.                *)
(* Characters are one-letter strings, C strings are sequences of them.     *)
(***************************************************************************)
EXTENDS Integers, Sequences, FiniteSets, TLC

VARIABLES
    pc,                 \* position inside loop(): "recv", "parse", "control", "send"
    iter,               \* number of completed passes of loop()
    now,                \* millis()
    rx,                 \* bytes waiting in Serial2 (sent by ESP-B, not yet read)
    line,               \* bytes ESP-B has written since the decoder was last idle
                        \* with nothing waiting; rx is its unread end
    arrivals,           \* number of chunks ESP-B has written (decoder specification)
    recvInProgress,     \* static of recvDataFromESP_B
    ndx,                \* static of recvDataFromESP_B
    receivedChars,      \* char receivedChars[MAX_DATA_LENGTH]
    newData,
    parsedPairs,        \* the (key, value) Strings of the payload parsed last
    rod2_pos,
    rod3_pos,
    currentPowerLevel,
    previousPowerLevel,
    currentState,
    sequence_step,
    stateTimer,
    buzzerTimer,
    isBuzzerOn,
    buzzerPin,          \* level last written to BUZZER_PIN
    relay,              \* relay pin -> TRUE when RELAY_ON was written last
    motor,              \* PWM channel -> duty (0..255) written last by ledcWrite
    lastUartSendToD,
    sent,               \* bytes written to Serial1 in the current pass
    written,            \* outputs written (digitalWrite/ledcWrite) in the current pass
    seqLog,             \* staged actions announced on Serial since Idle was left
    \* the visualizer nodes ESP-E, ESP-F, ESP-G
    node,               \* which of the three programs runs
    varrivals,          \* number of lines the upstream node has written to it
    viter,              \* passes of the visualizer loop() completed
    vnow,               \* millis() of the visualizer
    vrx,                \* bytes waiting in the visualizer's Serial2
    pumpStatus,         \* pumpPrimaryStatus / activePumpStatus, as the integer stored
    lastAnimationTime,
    animationSpeedDelay,
    masterPosition,
    led,                \* LEDC channel -> duty written last by ledcWrite
    ledWritten,         \* channels written by ledcWrite in the last pass
    vLine,              \* uartBuffer as read in the last pass, <<>> when nothing was read
    vBefore             \* the status at the start of the last pass

vars == <<pc, iter, now, rx, line, arrivals, recvInProgress, ndx, receivedChars, newData,
          parsedPairs, rod2_pos, rod3_pos, currentPowerLevel, previousPowerLevel,
          currentState, sequence_step, stateTimer, buzzerTimer, isBuzzerOn,
          buzzerPin, relay, motor, lastUartSendToD, sent, written, seqLog,
          node, varrivals, viter, vnow, vrx, pumpStatus, lastAnimationTime,
          animationSpeedDelay, masterPosition, led, ledWritten, vLine, vBefore>>

\* the variables of the visualizer nodes
visVars == <<node, varrivals, viter, vnow, vrx, pumpStatus, lastAnimationTime,
             animationSpeedDelay, masterPosition, led, ledWritten, vLine, vBefore>>

\* the variables of ESP-C
seqVars == <<pc, iter, now, rx, line, arrivals, recvInProgress, ndx, receivedChars,
             newData, parsedPairs, rod2_pos, rod3_pos, currentPowerLevel,
             previousPowerLevel, currentState, sequence_step, stateTimer,
             buzzerTimer, isBuzzerOn, buzzerPin, relay, motor, lastUartSendToD,
             sent, written, seqLog>>

(***************************************************************************)
(* Program constants                                                       *)
(***************************************************************************)
SEQUENCE_DELAY == 5000
BUZZER_INTERVAL == 500
UART_SEND_TO_D_INTERVAL == 500
MAX_DATA_LENGTH == 50
LOOP_DELAY == 10
LONG_MAX == 2147483647
START_MARKER == "<"
END_MARKER == ">"
NUL == "NUL"            \* the byte '\0'

STATE_IDLE == "STATE_IDLE"
STATE_STARTING_UP == "STATE_STARTING_UP"
STATE_RUNNING == "STATE_RUNNING"
STATE_SHUTTING_DOWN == "STATE_SHUTTING_DOWN"
SystemState == {STATE_IDLE, STATE_STARTING_UP, STATE_RUNNING, STATE_SHUTTING_DOWN}

RelayPins == {"STEAM_HUMID_1", "STEAM_HUMID_2", "CONDENSOR_HUMID",
              "COOLTOWER_HUMID_1", "COOLTOWER_HUMID_2"}
PwmChannels == {"STEAM_FAN", "TURBINE", "CONDENSOR", "COOLTOWER"}

KEY_ROD2 == <<"r", "o", "d", "2">>
KEY_ROD3 == <<"r", "o", "d", "3">>
KEY_PWR == <<"p", "w", "r">>

(***************************************************************************)
(* Text helpers: Print::print(int), String::toInt, strtok, indexOf         *)
(***************************************************************************)
DigitChars == <<"0", "1", "2", "3", "4", "5", "6", "7", "8", "9">>

IsDigit(c) == \E i \in 1..10 : DigitChars[i] = c

DigitVal(c) == (CHOOSE i \in 1..10 : DigitChars[i] = c) - 1

IsSpace(c) == c \in {" ", "\t", "\n", "\r", "\f"}

RECURSIVE DecDigits(_)
DecDigits(n) ==
    IF n < 10 THEN <<DigitChars[n + 1]>>
    ELSE DecDigits(n \div 10) \o <<DigitChars[(n % 10) + 1]>>

\* Serial1.print(int): the decimal text, '-' first for a negative number
PrintInt(n) == IF n < 0 THEN <<"-">> \o DecDigits(-n) ELSE DecDigits(n)

RECURSIVE SkipSpaces(_)
SkipSpaces(s) ==
    IF s # <<>> /\ IsSpace(Head(s)) THEN SkipSpaces(Tail(s)) ELSE s

\* the decimal digits at the head of s accumulated as strtol does: the value,
\* or LONG_MAX with over set once the value no longer fits a long
RECURSIVE AccDigits(_, _)
AccDigits(s, acc) ==
    IF s # <<>> /\ IsDigit(Head(s))
    THEN LET dgt == DigitVal(Head(s))
         IN  AccDigits(Tail(s),
                       IF acc.over \/ acc.val > (LONG_MAX - dgt) \div 10
                       THEN [val |-> LONG_MAX, over |-> TRUE]
                       ELSE [val |-> acc.val * 10 + dgt, over |-> FALSE])
    ELSE acc

\* String::toInt() is atol(): leading blanks, an optional sign, then the
\* leading decimal digits; 0 when there are none
ToInt(s) ==
    LET t == SkipSpaces(s)
        neg == t # <<>> /\ Head(t) = "-"
        u == IF t # <<>> /\ Head(t) \in {"-", "+"} THEN Tail(t) ELSE t
        r == AccDigits(u, [val |-> 0, over |-> FALSE])
    IN  IF neg THEN (IF r.over THEN (0 - LONG_MAX) - 1 ELSE 0 - r.val) ELSE r.val

\* String::indexOf(c): 0-based position of the first c, -1 when absent
IndexOf(s, c) ==
    IF \E i \in 1..Len(s) : s[i] = c
    THEN (CHOOSE i \in 1..Len(s) : s[i] = c /\ \A j \in 1..(i - 1) : s[j] # c) - 1
    ELSE -1

\* the tokens strtok(.., ";") returns one after the other (empty ones skipped)
RECURSIVE StrTok(_, _)
StrTok(s, cur) ==
    IF s = <<>> THEN (IF cur = <<>> THEN <<>> ELSE <<cur>>)
    ELSE IF Head(s) = ";"
         THEN (IF cur = <<>> THEN <<>> ELSE <<cur>>) \o StrTok(Tail(s), <<>>)
         ELSE StrTok(Tail(s), Append(cur, Head(s)))

\* the C string held in a char array: the bytes before the first '\0'
CStr(arr) ==
    LET end == CHOOSE i \in 0..(MAX_DATA_LENGTH - 1) :
                   arr[i] = NUL /\ \A j \in 0..(i - 1) : arr[j] # NUL
    IN  [i \in 1..end |-> arr[i - 1]]

(***************************************************************************)
(* Frame Encoder                                                           *)
(***************************************************************************)
\* <key:value> and a line feed, as sendDataToEspD writes it
EncodeFrame(key, value) ==
    <<START_MARKER>> \o key \o <<":">> \o PrintInt(value) \o <<END_MARKER, "\n">>

\* the line terminator left out
sendDataToEspD_NoTerminator(level) ==
    <<START_MARKER>> \o KEY_PWR \o <<":">> \o PrintInt(level) \o <<END_MARKER>>

sendDataToEspD(level) == EncodeFrame(KEY_PWR, level)

(***************************************************************************)
(* Frame Decoder: recvDataFromESP_B                                        *)
(***************************************************************************)
\* a full buffer keeps its last place for the newest byte
RecvByte_OverwritesLast(d, rc) ==
    IF d.recvInProgress
    THEN IF rc # END_MARKER
         THEN IF d.ndx < MAX_DATA_LENGTH - 1
              THEN [d EXCEPT !.receivedChars[d.ndx] = rc, !.ndx = d.ndx + 1]
              ELSE [d EXCEPT !.receivedChars[d.ndx - 1] = rc]
         ELSE [d EXCEPT !.receivedChars[d.ndx] = NUL, !.recvInProgress = FALSE,
                        !.ndx = 0, !.newData = TRUE]
    ELSE IF rc = START_MARKER THEN [d EXCEPT !.recvInProgress = TRUE] ELSE d

\* the body of the while loop for one byte rc; d holds the decoder's variables
RecvByte(d, rc) ==
    IF d.recvInProgress
    THEN IF rc # END_MARKER
         THEN IF d.ndx < MAX_DATA_LENGTH - 1
              THEN [d EXCEPT !.receivedChars[d.ndx] = rc, !.ndx = d.ndx + 1]
              ELSE d
         ELSE [d EXCEPT !.receivedChars[d.ndx] = NUL, !.recvInProgress = FALSE,
                        !.ndx = 0, !.newData = TRUE]
    ELSE IF rc = START_MARKER THEN [d EXCEPT !.recvInProgress = TRUE] ELSE d

\* while (Serial2.available() > 0), the test of newData left out
RECURSIVE RecvLoop_IgnoresFlag(_, _)
RecvLoop_IgnoresFlag(d, bytes) ==
    IF bytes # <<>>
    THEN RecvLoop_IgnoresFlag(RecvByte(d, Head(bytes)), Tail(bytes))
    ELSE [d |-> d, rest |-> bytes]

\* while (Serial2.available() > 0 && newData == false)
RECURSIVE RecvLoop(_, _)
RecvLoop(d, bytes) ==
    IF bytes # <<>> /\ d.newData = FALSE
    THEN RecvLoop(RecvByte(d, Head(bytes)), Tail(bytes))
    ELSE [d |-> d, rest |-> bytes]

(***************************************************************************)
(* Message Parser: parseDataFromESP_B                                      *)
(***************************************************************************)
\* String key = dataPair.substring(0, colonIndex)
KeyOf(dataPair, colonIndex) == SubSeq(dataPair, 1, colonIndex)

\* substring(colonIndex): the value keeps the ':'
ValueOf_FromColon(dataPair, colonIndex) ==
    SubSeq(dataPair, colonIndex + 1, Len(dataPair))

\* String value = dataPair.substring(colonIndex + 1)
ValueOf(dataPair, colonIndex) == SubSeq(dataPair, colonIndex + 2, Len(dataPair))

\* the (key, value) Strings of every token that holds a ':'
RECURSIVE PairsOf(_)
PairsOf(tokens) ==
    IF tokens = <<>> THEN <<>>
    ELSE LET dataPair == Head(tokens)
             colonIndex == IndexOf(dataPair, ":")
         IN  IF colonIndex # -1
             THEN << <<KeyOf(dataPair, colonIndex), ValueOf(dataPair, colonIndex)>> >>
                  \o PairsOf(Tail(tokens))
             ELSE PairsOf(Tail(tokens))

\* a pair with the key rod2 also clears the reading of rod3
RECURSIVE AssignRods_Rod2ClearsRod3(_, _)
AssignRods_Rod2ClearsRod3(r, pairs) ==
    IF pairs = <<>> THEN r
    ELSE LET key == Head(pairs)[1]
             value == Head(pairs)[2]
         IN  AssignRods_Rod2ClearsRod3(
                 IF key = KEY_ROD2 THEN [r EXCEPT !.rod2 = ToInt(value), !.rod3 = 0]
                 ELSE IF key = KEY_ROD3 THEN [r EXCEPT !.rod3 = ToInt(value)]
                 ELSE r,
                 Tail(pairs))

\* the assignments of the token loop, pair after pair; r = [rod2, rod3]
RECURSIVE AssignRods(_, _)
AssignRods(r, pairs) ==
    IF pairs = <<>> THEN r
    ELSE LET key == Head(pairs)[1]
             value == Head(pairs)[2]
         IN  AssignRods(IF key = KEY_ROD2 THEN [r EXCEPT !.rod2 = ToInt(value)]
                        ELSE IF key = KEY_ROD3 THEN [r EXCEPT !.rod3 = ToInt(value)]
                        ELSE r,
                        Tail(pairs))

(***************************************************************************)
(* Actuation.  m holds the variables of the Sequencer and the outputs:     *)
(* currentState, sequence_step, stateTimer, buzzerTimer, isBuzzerOn,       *)
(* buzzerPin, relay, motor, written, seqLog                                *)
(***************************************************************************)
\* setMotorPwm: map(speed, 0, 100, 0, 255), the duty handed to ledcWrite
MapPwm(speed) == (speed * 255) \div 100

AllOutputs == RelayPins \cup PwmChannels

\* turnEverythingOff() switches the relays and the buzzer off and leaves the
\* motors to the staged shutdown
turnEverythingOff_RelaysOnly(m) ==
    [m EXCEPT !.relay = [p \in RelayPins |-> FALSE],
              !.buzzerPin = FALSE,
              !.isBuzzerOn = FALSE,
              !.written = @ \cup RelayPins \cup {"BUZZER"}]

\* turnEverythingOff() without the line for the steam fan
turnEverythingOff_KeepsSteamFan(m) ==
    [m EXCEPT !.relay = [p \in RelayPins |-> FALSE],
              !.buzzerPin = FALSE,
              !.isBuzzerOn = FALSE,
              !.motor = [c \in PwmChannels |->
                            IF c = "STEAM_FAN" THEN m.motor[c] ELSE MapPwm(0)],
              !.written = @ \cup (AllOutputs \ {"STEAM_FAN"}) \cup {"BUZZER"}]

turnEverythingOff(m) ==
    [m EXCEPT !.relay = [p \in RelayPins |-> FALSE],
              !.buzzerPin = FALSE,
              !.isBuzzerOn = FALSE,
              !.motor = [c \in PwmChannels |-> MapPwm(0)],
              !.written = @ \cup AllOutputs \cup {"BUZZER"}]

\* Mode NORMAL (1) and Mode MAKSIMAL (2)
NormalRelays == [p \in RelayPins |->
                    p \in {"STEAM_HUMID_1", "CONDENSOR_HUMID", "COOLTOWER_HUMID_1"}]
NormalMotors == [c \in PwmChannels |->
                    MapPwm(CASE c = "STEAM_FAN" -> 50
                             [] c = "TURBINE" -> 40
                             [] c = "CONDENSOR" -> 60
                             [] c = "COOLTOWER" -> 60)]
MaxRelays == [p \in RelayPins |-> TRUE]
MaxMotors == [c \in PwmChannels |-> MapPwm(100)]

\* Mode MAKSIMAL pasted from Mode NORMAL with only the speeds changed
updateSystemOutputs_MaxKeepsNormalRelays(m, level) ==
    IF m.currentState # STATE_RUNNING THEN m
    ELSE IF level = 1
         THEN [m EXCEPT !.relay = NormalRelays, !.motor = NormalMotors,
                        !.written = @ \cup AllOutputs]
    ELSE IF level = 2
         THEN [m EXCEPT !.relay = NormalRelays, !.motor = MaxMotors,
                        !.written = @ \cup AllOutputs]
    ELSE m

updateSystemOutputs(m, level) ==
    IF m.currentState # STATE_RUNNING THEN m
    ELSE IF level = 1
         THEN [m EXCEPT !.relay = NormalRelays, !.motor = NormalMotors,
                        !.written = @ \cup AllOutputs]
    ELSE IF level = 2
         THEN [m EXCEPT !.relay = MaxRelays, !.motor = MaxMotors,
                        !.written = @ \cup AllOutputs]
    ELSE m

\* step 2 of the startup also switches the condenser humidifier on
runStartupSequence_EarlyCondenser(m, level) ==
    CASE m.sequence_step = 1 ->
            [m EXCEPT !.seqLog = Append(@, <<"STARTUP", 1>>),
                      !.relay["STEAM_HUMID_1"] = TRUE,
                      !.motor["STEAM_FAN"] = MapPwm(50),
                      !.written = @ \cup {"STEAM_HUMID_1", "STEAM_FAN"}]
      [] m.sequence_step = 2 ->
            [m EXCEPT !.seqLog = Append(@, <<"STARTUP", 2>>),
                      !.relay["CONDENSOR_HUMID"] = TRUE,
                      !.motor["TURBINE"] = MapPwm(40),
                      !.written = @ \cup {"CONDENSOR_HUMID", "TURBINE"}]
      [] m.sequence_step = 3 ->
            [m EXCEPT !.seqLog = Append(@, <<"STARTUP", 3>>),
                      !.relay["CONDENSOR_HUMID"] = TRUE,
                      !.motor["CONDENSOR"] = MapPwm(60),
                      !.written = @ \cup {"CONDENSOR_HUMID", "CONDENSOR"}]
      [] m.sequence_step = 4 ->
            updateSystemOutputs(
                [m EXCEPT !.seqLog = Append(@, <<"STARTUP", 4>>),
                          !.relay["COOLTOWER_HUMID_1"] = TRUE,
                          !.motor["COOLTOWER"] = MapPwm(60),
                          !.written = @ \cup {"COOLTOWER_HUMID_1", "COOLTOWER"},
                          !.currentState = STATE_RUNNING],
                level)
      [] OTHER -> m

runStartupSequence(m, level) ==
    CASE m.sequence_step = 1 ->
            [m EXCEPT !.seqLog = Append(@, <<"STARTUP", 1>>),
                      !.relay["STEAM_HUMID_1"] = TRUE,
                      !.motor["STEAM_FAN"] = MapPwm(50),
                      !.written = @ \cup {"STEAM_HUMID_1", "STEAM_FAN"}]
      [] m.sequence_step = 2 ->
            [m EXCEPT !.seqLog = Append(@, <<"STARTUP", 2>>),
                      !.motor["TURBINE"] = MapPwm(40),
                      !.written = @ \cup {"TURBINE"}]
      [] m.sequence_step = 3 ->
            [m EXCEPT !.seqLog = Append(@, <<"STARTUP", 3>>),
                      !.relay["CONDENSOR_HUMID"] = TRUE,
                      !.motor["CONDENSOR"] = MapPwm(60),
                      !.written = @ \cup {"CONDENSOR_HUMID", "CONDENSOR"}]
      [] m.sequence_step = 4 ->
            updateSystemOutputs(
                [m EXCEPT !.seqLog = Append(@, <<"STARTUP", 4>>),
                          !.relay["COOLTOWER_HUMID_1"] = TRUE,
                          !.motor["COOLTOWER"] = MapPwm(60),
                          !.written = @ \cup {"COOLTOWER_HUMID_1", "COOLTOWER"},
                          !.currentState = STATE_RUNNING],
                level)
      [] OTHER -> m

\* step 4 stops the cooling tower and leaves the state as it is
runShutdownSequence_NeverIdle(m) ==
    CASE m.sequence_step = 1 ->
            [m EXCEPT !.seqLog = Append(@, <<"SHUTDOWN", 1>>)]
      [] m.sequence_step = 2 ->
            [m EXCEPT !.seqLog = Append(@, <<"SHUTDOWN", 2>>),
                      !.motor["TURBINE"] = MapPwm(0),
                      !.written = @ \cup {"TURBINE"}]
      [] m.sequence_step = 3 ->
            [m EXCEPT !.seqLog = Append(@, <<"SHUTDOWN", 3>>),
                      !.motor["CONDENSOR"] = MapPwm(0),
                      !.written = @ \cup {"CONDENSOR"}]
      [] m.sequence_step = 4 ->
            [m EXCEPT !.seqLog = Append(@, <<"SHUTDOWN", 4>>),
                      !.motor["COOLTOWER"] = MapPwm(0),
                      !.written = @ \cup {"COOLTOWER"}]
      [] OTHER -> m

runShutdownSequence(m) ==
    CASE m.sequence_step = 1 ->
            [m EXCEPT !.seqLog = Append(@, <<"SHUTDOWN", 1>>)]
      [] m.sequence_step = 2 ->
            [m EXCEPT !.seqLog = Append(@, <<"SHUTDOWN", 2>>),
                      !.motor["TURBINE"] = MapPwm(0),
                      !.written = @ \cup {"TURBINE"}]
      [] m.sequence_step = 3 ->
            [m EXCEPT !.seqLog = Append(@, <<"SHUTDOWN", 3>>),
                      !.motor["CONDENSOR"] = MapPwm(0),
                      !.written = @ \cup {"CONDENSOR"}]
      [] m.sequence_step = 4 ->
            [m EXCEPT !.seqLog = Append(@, <<"SHUTDOWN", 4>>),
                      !.motor["COOLTOWER"] = MapPwm(0),
                      !.written = @ \cup {"COOLTOWER"},
                      !.currentState = STATE_IDLE]
      [] OTHER -> m

(***************************************************************************)
(* Threshold-to-Mode derivation and the state machine of loop()            *)
(***************************************************************************)
\* the low test written with && for ||
DerivePowerLevel_LowNeedsBoth(r2, r3) ==
    IF r2 < 21 /\ r3 < 16 THEN 0
    ELSE IF r2 >= 41 /\ r3 >= 31 THEN 2
    ELSE 1

DerivePowerLevel(r2, r3) ==
    IF r2 < 21 \/ r3 < 16 THEN 0
    ELSE IF r2 >= 41 /\ r3 >= 31 THEN 2
    ELSE 1

\* the window test written with >= for >
StageDue_AtWindow(t, timer) == t - timer >= SEQUENCE_DELAY

\* millis() - stateTimer > SEQUENCE_DELAY
StageDue(t, timer) == t - timer > SEQUENCE_DELAY

\* Mode 0 switches everything off and goes to STATE_IDLE at once, without
\* the staged shutdown
EnterShutdown_StraightToIdle(m, t) ==
    turnEverythingOff([m EXCEPT !.currentState = STATE_IDLE,
                                !.sequence_step = 1,
                                !.stateTimer = t])

\* the entry of STATE_SHUTTING_DOWN without turnEverythingOff()
EnterShutdown_NoOff(m, t) ==
    runShutdownSequence([m EXCEPT !.currentState = STATE_SHUTTING_DOWN,
                                  !.sequence_step = 1,
                                  !.stateTimer = t])

\* entry of STATE_SHUTTING_DOWN, the same lines in both cases of the switch
EnterShutdown(m, t) ==
    runShutdownSequence(
        turnEverythingOff([m EXCEPT !.currentState = STATE_SHUTTING_DOWN,
                                    !.sequence_step = 1,
                                    !.stateTimer = t]))

\* the profile is written in every pass
ModeChanged_Always(level, prev) == TRUE

\* if (currentPowerLevel != previousPowerLevel)
ModeChanged(level, prev) == level # prev

\* the buzzer is left as it is when the alarm condition ends
BuzzerControl_NoForceOff(m, level, r2, r3, t) ==
    IF level = 2 /\ r2 >= 70 /\ r3 >= 55 /\ t - m.buzzerTimer > BUZZER_INTERVAL
    THEN [m EXCEPT !.buzzerTimer = t,
                   !.isBuzzerOn = ~m.isBuzzerOn,
                   !.buzzerPin = ~m.isBuzzerOn,
                   !.written = @ \cup {"BUZZER"}]
    ELSE m

\* the buzzer branch of case STATE_RUNNING
BuzzerControl(m, level, r2, r3, t) ==
    IF level = 2 /\ r2 >= 70 /\ r3 >= 55
    THEN IF t - m.buzzerTimer > BUZZER_INTERVAL
         THEN [m EXCEPT !.buzzerTimer = t,
                        !.isBuzzerOn = ~m.isBuzzerOn,
                        !.buzzerPin = ~m.isBuzzerOn,
                        !.written = @ \cup {"BUZZER"}]
         ELSE m
    ELSE IF m.isBuzzerOn
         THEN [m EXCEPT !.isBuzzerOn = FALSE, !.buzzerPin = FALSE,
                        !.written = @ \cup {"BUZZER"}]
         ELSE m

\* a Mode above 0 takes STATE_SHUTTING_DOWN back to the startup
StateMachine_ShutdownAborts(m, level, prev, r2, r3, t) ==
    CASE m.currentState = STATE_IDLE ->
            IF level > 0
            THEN runStartupSequence(
                     [m EXCEPT !.currentState = STATE_STARTING_UP,
                               !.sequence_step = 1,
                               !.stateTimer = t,
                               !.seqLog = <<>>],
                     level)
            ELSE m
      [] m.currentState = STATE_STARTING_UP ->
            IF level = 0 THEN EnterShutdown(m, t)
            ELSE IF StageDue(t, m.stateTimer)
                 THEN runStartupSequence(
                          [m EXCEPT !.sequence_step = @ + 1, !.stateTimer = t],
                          level)
                 ELSE m
      [] m.currentState = STATE_RUNNING ->
            IF level = 0 THEN EnterShutdown(m, t)
            ELSE BuzzerControl(
                     IF ModeChanged(level, prev) THEN updateSystemOutputs(m, level) ELSE m,
                     level, r2, r3, t)
      [] m.currentState = STATE_SHUTTING_DOWN ->
            IF level > 0
            THEN runStartupSequence(
                     [m EXCEPT !.currentState = STATE_STARTING_UP,
                               !.sequence_step = 1,
                               !.stateTimer = t,
                               !.seqLog = <<>>],
                     level)
            ELSE IF StageDue(t, m.stateTimer)
                 THEN runShutdownSequence(
                          [m EXCEPT !.sequence_step = @ + 1, !.stateTimer = t])
                 ELSE m

\* switch (currentState) at millis() = t, with the Mode of this pass (level)
\* and of the pass before (prev)
StateMachine(m, level, prev, r2, r3, t) ==
    CASE m.currentState = STATE_IDLE ->
            IF level > 0
            THEN runStartupSequence(
                     [m EXCEPT !.currentState = STATE_STARTING_UP,
                               !.sequence_step = 1,
                               !.stateTimer = t,
                               !.seqLog = <<>>],
                     level)
            ELSE m
      [] m.currentState = STATE_STARTING_UP ->
            IF level = 0 THEN EnterShutdown(m, t)
            ELSE IF StageDue(t, m.stateTimer)
                 THEN runStartupSequence(
                          [m EXCEPT !.sequence_step = @ + 1, !.stateTimer = t],
                          level)
                 ELSE m
      [] m.currentState = STATE_RUNNING ->
            IF level = 0 THEN EnterShutdown(m, t)
            ELSE BuzzerControl(
                     IF ModeChanged(level, prev) THEN updateSystemOutputs(m, level) ELSE m,
                     level, r2, r3, t)
      [] m.currentState = STATE_SHUTTING_DOWN ->
            IF StageDue(t, m.stateTimer)
            THEN runShutdownSequence(
                     [m EXCEPT !.sequence_step = @ + 1, !.stateTimer = t])
            ELSE m

(***************************************************************************)
(* The visualizer nodes (ESP-E, ESP-F, ESP-G)                              *)
(***************************************************************************)
NUM_LEDS == 16
NUM_ANIMATION_BLOCKS == 4
LEDS_PER_BLOCK == 4
brightnessLevels == <<10, 80, 150, 255>>
PUMP_OFF == 0
PUMP_STARTING == 1
PUMP_ON == 2
PUMP_SHUTTING_DOWN == 3
PumpStatus == {PUMP_OFF, PUMP_STARTING, PUMP_ON, PUMP_SHUTTING_DOWN}
VisNodes == {"E", "F", "G"}
KEY_PUMP1 == <<"p", "u", "m", "p", "1">>
KEY_PUMP2 == <<"p", "u", "m", "p", "2">>
KEY_PUMP3 == <<"p", "u", "m", "p", "3">>

\* the key each node compares with in parseData
VisKey(n) == CASE n = "E" -> KEY_PUMP1 [] n = "F" -> KEY_PUMP2 [] n = "G" -> KEY_PUMP3

\* String::indexOf(c, from): 0-based, -1 when c is not at or after from
IndexOfFrom(s, c, from) ==
    LET I == {i \in from..(Len(s) - 1) : s[i + 1] = c}
    IN  IF I = {} THEN -1 ELSE CHOOSE i \in I : \A j \in I : i <= j

\* String::substring(a, b), 0-based, b excluded
Substring(s, a, b) == SubSeq(s, a + 1, b)

\* Serial2.readStringUntil('\n'): the bytes up to the terminator, which is
\* dropped; everything when no terminator comes before the timeout
ReadStringUntil(bytes) ==
    LET k == IndexOf(bytes, "\n")
    IN  IF k = -1
        THEN [str |-> bytes, rest |-> <<>>]
        ELSE [str |-> Substring(bytes, 0, k), rest |-> Substring(bytes, k + 1, Len(bytes))]

\* uartBuffer.startsWith("<") && uartBuffer.endsWith(">")
IsFrame(str) == str # <<>> /\ str[1] = START_MARKER /\ str[Len(str)] = END_MARKER

\* data.remove(0, 1); data.remove(data.length() - 1);
StripMarkers(str) == SubSeq(str, 2, Len(str) - 1)

\* nothing assigned yet
NoStatus == [found |-> FALSE, value |-> 0]

\* the assignment inside the loop, for one pair
PairStatus(n, pair, acc) ==
    LET colonIndex == IndexOf(pair, ":")
    IN  IF colonIndex # -1 /\ Substring(pair, 0, colonIndex) = VisKey(n)
        THEN [found |-> TRUE,
              value |-> ToInt(Substring(pair, colonIndex + 1, Len(pair)))]
        ELSE acc

\* parseData after the markers are removed: the value assigned last to the
\* status, if any.  ESP-E scans every pair that ends with ';'; ESP-F and ESP-G
\* return at the first pair with their key; ESP-G also looks at what follows
\* the last ';'
RECURSIVE parseData(_, _, _, _)
parseData(n, data, lastIndex, acc) ==
    LET separatorIndex == IndexOfFrom(data, ";", lastIndex)
    IN  IF separatorIndex = -1
        THEN IF n = "G"
             THEN PairStatus(n, Substring(data, lastIndex, Len(data)), acc)
             ELSE acc
        ELSE LET a == PairStatus(n, Substring(data, lastIndex, separatorIndex), acc)
             IN  IF a # acc /\ n # "E"
                 THEN a
                 ELSE parseData(n, data, separatorIndex + 1, a)

\* (PumpStatus)value.toInt(): an enumerator is stored as it is; a value that
\* is none of them is outside the range of the enumeration, and the build
\* either stores the integer or takes the value for one of the enumerators
CastPumpStatus(v) == IF v \in PumpStatus THEN {v} ELSE {v} \cup PumpStatus

\* switch (status) for a status other than PUMP_OFF
SpeedDelay(n, status, old) ==
    CASE status = PUMP_STARTING -> 500
      [] status = PUMP_ON -> IF n = "E" THEN 200 ELSE 250
      [] status = PUMP_SHUTTING_DOWN -> 600
      [] OTHER -> old

Leds == 0..(NUM_LEDS - 1)

\* nextLedState after the loop over the blocks, each drawn by drawLedBlockToBuffer
LedFrame(pos) ==
    [k \in Leds |->
        LET j == CHOOSE j \in 0..(LEDS_PER_BLOCK - 1) :
                     \E i \in 0..(NUM_ANIMATION_BLOCKS - 1) :
                         (((pos + i * LEDS_PER_BLOCK) % NUM_LEDS) + j) % NUM_LEDS = k
        IN  brightnessLevels[j + 1]]

\* the frames of the animation, one for each position
DrawnFrames == [pos \in 0..NUM_LEDS |-> LedFrame(pos)]

\* the wrap test lets the position reach NUM_LEDS
WrapPosition_Late(p) == IF p > NUM_LEDS THEN 0 ELSE p

\* if (masterPosition >= NUM_LEDS) masterPosition = 0;
WrapPosition(p) == IF p >= NUM_LEDS THEN 0 ELSE p

\* if (millis() - lastAnimationTime >= animationSpeedDelay)
AnimationDue(t, last, dly) == t - last >= dly

\* the LEDs are switched off in every pass that sees PUMP_OFF
CaseOff_EveryPass(a) ==
    [a EXCEPT !.led = [k \in Leds |-> 0], !.ledWritten = Leds, !.masterPosition = -1]

\* case PUMP_OFF
CaseOff(a) ==
    IF a.masterPosition # -1
    THEN [a EXCEPT !.led = [k \in Leds |-> 0], !.ledWritten = Leds,
                   !.masterPosition = -1]
    ELSE a

\* the rest of loop() for a status other than PUMP_OFF, at millis() = t
Animate(a, dly, t) ==
    LET p0 == IF a.masterPosition = -1 THEN 0 ELSE a.masterPosition
    IN  IF AnimationDue(t, a.lastAnimationTime, dly)
        THEN [a EXCEPT !.lastAnimationTime = t,
                       !.led = DrawnFrames[p0],
                       !.ledWritten = Leds,
                       !.masterPosition = WrapPosition(p0 + 1),
                       !.animationSpeedDelay = dly]
        ELSE [a EXCEPT !.masterPosition = p0, !.animationSpeedDelay = dly]

\* the state when setup() of node n returns
VisSetup(n) ==
    /\ node = n
    /\ varrivals = 0
    /\ viter = 0
    /\ vnow = 0
    /\ vrx = <<>>
    /\ pumpStatus = PUMP_OFF
    /\ lastAnimationTime = 0
    /\ animationSpeedDelay = 1000
    /\ masterPosition = 0
    /\ led = [k \in Leds |-> 0]
    /\ ledWritten = {}
    /\ vLine = <<>>
    /\ vBefore = PUMP_OFF

\* one pass of loop(); the next pass starts d ms later
VisLoop(d) ==
    /\ LET got == vrx # <<>>
           rd == IF got THEN ReadStringUntil(vrx) ELSE [str |-> <<>>, rest |-> vrx]
           pv == IF got /\ IsFrame(rd.str)
                 THEN parseData(node, StripMarkers(rd.str), 0, NoStatus)
                 ELSE NoStatus
           a0 == [led |-> led, ledWritten |-> {}, masterPosition |-> masterPosition,
                  lastAnimationTime |-> lastAnimationTime,
                  animationSpeedDelay |-> animationSpeedDelay]
       IN  \E st \in (IF pv.found THEN CastPumpStatus(pv.value) ELSE {pumpStatus}) :
               LET a == IF st = PUMP_OFF
                        THEN CaseOff(a0)
                        ELSE Animate(a0, SpeedDelay(node, st, animationSpeedDelay), vnow)
               IN  /\ pumpStatus' = st
                   /\ vrx' = rd.rest
                   /\ vLine' = rd.str
                   /\ led' = a.led
                   /\ ledWritten' = a.ledWritten
                   /\ masterPosition' = a.masterPosition
                   /\ lastAnimationTime' = a.lastAnimationTime
                   /\ animationSpeedDelay' = a.animationSpeedDelay
    /\ vBefore' = pumpStatus
    /\ vnow' = vnow + d
    /\ viter' = viter + 1
    /\ UNCHANGED <<node, varrivals>>
    /\ UNCHANGED seqVars

\* the upstream node writes one line to the visualizer
VisArrive(str) ==
    /\ vrx' = vrx \o str \o <<"\n">>
    /\ varrivals' = varrivals + 1
    /\ UNCHANGED <<node, viter, vnow, pumpStatus, lastAnimationTime,
                   animationSpeedDelay, masterPosition, led, ledWritten, vLine,
                   vBefore>>
    /\ UNCHANGED seqVars

(***************************************************************************)
(* The four steps of loop()                                                *)
(***************************************************************************)
\* recvDataFromESP_B(); a pass starts here, with nothing written or sent yet
Recv ==
    /\ pc = "recv"
    /\ LET r == RecvLoop([recvInProgress |-> recvInProgress, ndx |-> ndx,
                          receivedChars |-> receivedChars, newData |-> newData],
                         rx)
       IN  /\ recvInProgress' = r.d.recvInProgress
           /\ ndx' = r.d.ndx
           /\ receivedChars' = r.d.receivedChars
           /\ newData' = r.d.newData
           /\ rx' = r.rest
    /\ written' = {}
    /\ sent' = <<>>
    /\ pc' = "parse"
    /\ UNCHANGED <<iter, now, line, arrivals, parsedPairs, rod2_pos, rod3_pos,
                   currentPowerLevel, previousPowerLevel, currentState,
                   sequence_step, stateTimer, buzzerTimer, isBuzzerOn, buzzerPin,
                   relay, motor, lastUartSendToD, seqLog>>
    /\ UNCHANGED visVars

\* parseDataFromESP_B()
Parse ==
    /\ pc = "parse"
    /\ IF newData
       THEN LET pairs == PairsOf(StrTok(CStr(receivedChars), <<>>))
                r == AssignRods([rod2 |-> rod2_pos, rod3 |-> rod3_pos], pairs)
            IN  /\ parsedPairs' = pairs
                /\ rod2_pos' = r.rod2
                /\ rod3_pos' = r.rod3
                /\ newData' = FALSE
       ELSE UNCHANGED <<parsedPairs, rod2_pos, rod3_pos, newData>>
    /\ pc' = "control"
    /\ UNCHANGED <<iter, now, rx, line, arrivals, recvInProgress, ndx, receivedChars,
                   currentPowerLevel, previousPowerLevel, currentState,
                   sequence_step, stateTimer, buzzerTimer, isBuzzerOn, buzzerPin,
                   relay, motor, lastUartSendToD, sent, written, seqLog>>
    /\ UNCHANGED visVars

\* the Mode derivation and switch (currentState)
Control ==
    /\ pc = "control"
    /\ LET level == DerivePowerLevel(rod2_pos, rod3_pos)
           m == StateMachine(
                    [currentState |-> currentState, sequence_step |-> sequence_step,
                     stateTimer |-> stateTimer, buzzerTimer |-> buzzerTimer,
                     isBuzzerOn |-> isBuzzerOn, buzzerPin |-> buzzerPin,
                     relay |-> relay, motor |-> motor, written |-> written,
                     seqLog |-> seqLog],
                    level, currentPowerLevel, rod2_pos, rod3_pos, now)
       IN  /\ previousPowerLevel' = currentPowerLevel
           /\ currentPowerLevel' = level
           /\ currentState' = m.currentState
           /\ sequence_step' = m.sequence_step
           /\ stateTimer' = m.stateTimer
           /\ buzzerTimer' = m.buzzerTimer
           /\ isBuzzerOn' = m.isBuzzerOn
           /\ buzzerPin' = m.buzzerPin
           /\ relay' = m.relay
           /\ motor' = m.motor
           /\ written' = m.written
           /\ seqLog' = m.seqLog
    /\ pc' = "send"
    /\ UNCHANGED <<iter, now, rx, line, arrivals, recvInProgress, ndx, receivedChars,
                   newData, parsedPairs, rod2_pos, rod3_pos, lastUartSendToD, sent>>
    /\ UNCHANGED visVars

\* the frame carries the Mode of the pass before
Send_PreviousMode(d) ==
    /\ pc = "send"
    /\ IF now - lastUartSendToD > UART_SEND_TO_D_INTERVAL
       THEN /\ lastUartSendToD' = now
            /\ sent' = sendDataToEspD(previousPowerLevel)
       ELSE UNCHANGED <<lastUartSendToD, sent>>
    /\ now' = now + d
    /\ iter' = iter + 1
    /\ pc' = "recv"
    /\ UNCHANGED <<rx, line, arrivals, recvInProgress, ndx, receivedChars, newData,
                   parsedPairs, rod2_pos, rod3_pos, currentPowerLevel,
                   previousPowerLevel, currentState, sequence_step, stateTimer,
                   buzzerTimer, isBuzzerOn, buzzerPin, relay, motor, written, seqLog>>
    /\ UNCHANGED visVars

\* the periodic send to ESP-D, then delay(10): the next pass starts d ms later
Send(d) ==
    /\ pc = "send"
    /\ IF now - lastUartSendToD > UART_SEND_TO_D_INTERVAL
       THEN /\ lastUartSendToD' = now
            /\ sent' = sendDataToEspD(currentPowerLevel)
       ELSE UNCHANGED <<lastUartSendToD, sent>>
    /\ now' = now + d
    /\ iter' = iter + 1
    /\ pc' = "recv"
    /\ UNCHANGED <<rx, line, arrivals, recvInProgress, ndx, receivedChars, newData,
                   parsedPairs, rod2_pos, rod3_pos, currentPowerLevel,
                   previousPowerLevel, currentState, sequence_step, stateTimer,
                   buzzerTimer, isBuzzerOn, buzzerPin, relay, motor, written, seqLog>>
    /\ UNCHANGED visVars

\* nothing of what ESP-B wrote is still waiting or half decoded
DecoderIdle == rx = <<>> /\ ~recvInProgress /\ ~newData

\* the upstream node writes bytes to the line
Arrive(bytes) ==
    /\ rx' = rx \o bytes
    /\ line' = (IF DecoderIdle THEN <<>> ELSE line) \o bytes
    /\ UNCHANGED <<pc, iter, now, recvInProgress, ndx, receivedChars, newData,
                   parsedPairs, rod2_pos, rod3_pos, currentPowerLevel,
                   previousPowerLevel, currentState, sequence_step, stateTimer,
                   buzzerTimer, isBuzzerOn, buzzerPin, relay, motor,
                   lastUartSendToD, sent, written, seqLog>>
    /\ UNCHANGED visVars

\* the state when setup() returns, with bytes0 already waiting in Serial2
Boot(bytes0) ==
    /\ pc = "recv"
    /\ iter = 0
    /\ now = 0
    /\ rx = bytes0
    /\ line = bytes0
    /\ arrivals = 0
    /\ recvInProgress = FALSE
    /\ ndx = 0
    /\ receivedChars = [i \in 0..(MAX_DATA_LENGTH - 1) |-> NUL]
    /\ newData = FALSE
    /\ parsedPairs = <<>>
    /\ rod2_pos = 0
    /\ rod3_pos = 0
    /\ currentPowerLevel = 0
    /\ previousPowerLevel = 0
    /\ currentState = STATE_IDLE
    /\ sequence_step = 0
    /\ stateTimer = 0
    /\ buzzerTimer = 0
    /\ isBuzzerOn = FALSE
    /\ buzzerPin = FALSE
    /\ relay = [p \in RelayPins |-> FALSE]
    /\ motor = [c \in PwmChannels |-> MapPwm(0)]
    /\ lastUartSendToD = 0
    /\ sent = <<>>
    /\ written = {}
    /\ seqLog = <<>>

(***************************************************************************)
(* The upstream node and the passing of time                               *)
(***************************************************************************)
\* a frame of the wire format with both rod readings, as ESP-B sends it
RodFrame(a, b) ==
    <<START_MARKER>> \o KEY_ROD2 \o <<":">> \o PrintInt(a) \o <<";">>
        \o KEY_ROD3 \o <<":">> \o PrintInt(b) \o <<END_MARKER, "\n">>

\* bounds of the Sequencer specification
MaxIter == 8
Readings == {<<15, 10>>, <<25, 20>>, <<45, 35>>}
Delays == {LOOP_DELAY, SEQUENCE_DELAY, SEQUENCE_DELAY + LOOP_DELAY}

\* a whole frame arrives between two passes, the line being idle
ArriveFrame ==
    /\ pc = "recv"
    /\ rx = <<>>
    /\ \E v \in Readings : Arrive(RodFrame(v[1], v[2]))
    /\ UNCHANGED arrivals

StartPass == iter < MaxIter /\ Recv

EndPass == \E d \in Delays : Send(d)

Init == Boot(<<>>) /\ VisSetup("E")

Next == ArriveFrame \/ StartPass \/ Parse \/ Control \/ EndPass

Spec == Init /\ [][Next]_vars

(***************************************************************************)
(* Specification of single streams: the bytes of one test stream wait in   *)
(* Serial2 at boot and the loop runs a few passes over them                *)
(***************************************************************************)
MaxFrameIter == 3
MaxPairs == 3

\* readings around the thresholds of the Mode derivation
Rod2Grid == {-5, 0, 15, 20, 21, 25, 40, 41, 45}
Rod3Grid == {-5, 0, 10, 15, 16, 20, 30, 31, 35}

\* statuses for the round trip through encoder, decoder and parser
RoundTripKeys == {KEY_ROD2, KEY_ROD3, KEY_PWR}
RoundTripValues == {0, 1, 2, 9, 10, 41, 100, 65535, LONG_MAX}

\* pairs as they may stand in a payload: the text, the recognised key it
\* names ("none" otherwise), and the value the field takes from it
TestTokens ==
    { [text |-> KEY_ROD2 \o <<":", "2", "5">>, key |-> "rod2", leading |-> 25, numeric |-> TRUE],
      [text |-> KEY_ROD3 \o <<":", "2", "0">>, key |-> "rod3", leading |-> 20, numeric |-> TRUE],
      [text |-> KEY_ROD2 \o <<":", "x">>,      key |-> "rod2", leading |-> 0,  numeric |-> FALSE],
      [text |-> KEY_ROD3 \o <<":">>,           key |-> "rod3", leading |-> 0,  numeric |-> FALSE],
      [text |-> KEY_ROD2 \o <<":", "4", "x">>, key |-> "rod2", leading |-> 4,  numeric |-> FALSE],
      [text |-> KEY_PWR \o <<":", "7">>,       key |-> "none", leading |-> 7,  numeric |-> TRUE],
      [text |-> KEY_ROD3,                      key |-> "none", leading |-> 0,  numeric |-> FALSE] }

TokenLists == UNION {[1..n -> TestTokens] : n \in 1..MaxPairs}

RECURSIVE JoinTokens(_)
JoinTokens(ts) ==
    IF Len(ts) = 1 THEN ts[1].text
    ELSE ts[1].text \o <<";">> \o JoinTokens(Tail(ts))

PayloadFrame(ts) == <<START_MARKER>> \o JoinTokens(ts) \o <<END_MARKER, "\n">>

\* a frame that sets both readings, then the frame under test
PairStream(ts) == RodFrame(45, 35) \o PayloadFrame(ts)

FrameStreams ==
    {RodFrame(a, b) : a \in Rod2Grid, b \in Rod3Grid}
        \cup {EncodeFrame(k, v) : k \in RoundTripKeys, v \in RoundTripValues}
        \cup {PairStream(ts) : ts \in TokenLists}

StartPassFrame == iter < MaxFrameIter /\ Recv

EndPassFrame == Send(LOOP_DELAY)

InitFrame == (\E bytes \in FrameStreams : Boot(bytes)) /\ VisSetup("E")

NextFrame == StartPassFrame \/ Parse \/ Control \/ EndPassFrame

SpecFrame == InitFrame /\ [][NextFrame]_vars

(***************************************************************************)
(* Specification of the decoder: ESP-B's bytes arrive chunk by chunk, at   *)
(* any point of the loop, well formed or not                               *)
(***************************************************************************)
MaxDecIter == 3
MaxArrivals == 4
FillLen == 30

Chunks ==
    { <<START_MARKER>> \o KEY_ROD2 \o <<":", "4", "5">>,      \* an opened frame
      <<";">> \o KEY_ROD3 \o <<":", "3", "5">>,
      <<END_MARKER>>,
      RodFrame(25, 20),
      <<"x", "\n">>,
      [i \in 1..FillLen |-> "a"] }

ArriveChunk ==
    /\ arrivals < MaxArrivals
    /\ \E c \in Chunks : Arrive(c)
    /\ arrivals' = arrivals + 1

StartPassDec == iter < MaxDecIter /\ Recv

EndPassDec == Send(LOOP_DELAY)

NextDec == ArriveChunk \/ StartPassDec \/ Parse \/ Control \/ EndPassDec

SpecDecoder == Init /\ [][NextDec]_vars

(***************************************************************************)
(* Properties                                                              *)
(***************************************************************************)
\* a pass of loop() has just ended
EndOfPass == pc = "recv" /\ iter > 0

\* currentPowerLevel is the Mode of the readings held now
ModeIsCurrent == pc = "send" \/ (pc \in {"recv", "parse"} /\ iter > 0)

StartupLog(k) == [i \in 1..k |-> <<"STARTUP", i>>]

ShutdownLog(k) == [i \in 1..k |-> <<"SHUTDOWN", i>>]

AllOff ==
    /\ \A p \in RelayPins : relay[p] = FALSE
    /\ \A c \in PwmChannels : motor[c] = 0
    /\ buzzerPin = FALSE
    /\ isBuzzerOn = FALSE

\* C1: the Mode the loop derives is 0 when rod2 < 21 or rod3 < 16, 2 when
\* rod2 >= 41 and rod3 >= 31, and 1 otherwise, for every pair of readings;
\* (15,10) gives 0, (45,35) gives 2, (25,20) gives 1
C1_ModeDerivation ==
    ModeIsCurrent =>
        /\ (rod2_pos < 21 \/ rod3_pos < 16) => currentPowerLevel = 0
        /\ (rod2_pos >= 41 /\ rod3_pos >= 31) => currentPowerLevel = 2
        /\ (~(rod2_pos < 21 \/ rod3_pos < 16) /\ ~(rod2_pos >= 41 /\ rod3_pos >= 31))
              => currentPowerLevel = 1
        /\ (rod2_pos = 15 /\ rod3_pos = 10) => currentPowerLevel = 0
        /\ (rod2_pos = 45 /\ rod3_pos = 35) => currentPowerLevel = 2
        /\ (rod2_pos = 25 /\ rod3_pos = 20) => currentPowerLevel = 1

\* one reading high, the other below its minimum: the Mode derived is 0
C1_Witness ==
    pc = "send" /\ rod2_pos = 45 /\ rod3_pos = 15 /\ currentPowerLevel = 0

\* C2: from Idle, the startup actions 1, 2, 3, 4 are executed in this order,
\* each once: action 1 in the pass that leaves Idle, each later one only when
\* more than SEQUENCE_DELAY has passed since the action before it (and then at
\* once, while the Mode is above 0), and Running is entered in the pass that
\* executes action 4 and in no other
C2_StagedStartup ==
    /\ [](currentState = STATE_STARTING_UP =>
              sequence_step \in 1..3 /\ seqLog = StartupLog(sequence_step))
    /\ [](currentState = STATE_RUNNING => seqLog = StartupLog(4))
    /\ [][/\ (currentState = STATE_IDLE /\ currentState' # STATE_IDLE) =>
                 /\ currentState' = STATE_STARTING_UP
                 /\ seqLog' = StartupLog(1)
                 /\ stateTimer' = now
          /\ (currentState = STATE_STARTING_UP /\ currentState' # STATE_SHUTTING_DOWN
                 /\ seqLog' # seqLog) =>
                 /\ now - stateTimer > SEQUENCE_DELAY
                 /\ seqLog' = StartupLog(Len(seqLog) + 1)
                 /\ stateTimer' = now
          /\ (currentState = STATE_STARTING_UP /\ seqLog' = seqLog) =>
                 /\ stateTimer' = stateTimer
                 /\ currentState' = STATE_STARTING_UP
          /\ (pc = "control" /\ currentState = STATE_STARTING_UP
                 /\ currentPowerLevel' > 0 /\ now - stateTimer > SEQUENCE_DELAY) =>
                 seqLog' = StartupLog(Len(seqLog) + 1)
          /\ (currentState # STATE_RUNNING /\ currentState' = STATE_RUNNING) =>
                 /\ currentState = STATE_STARTING_UP
                 /\ seqLog = StartupLog(3)
                 /\ seqLog' = StartupLog(4)
       ]_vars

\* the pass that executed action 4 has entered Running
C2_Witness ==
    /\ pc = "send"
    /\ currentState = STATE_RUNNING
    /\ seqLog = StartupLog(4)
    /\ stateTimer = now

\* C3: at the end of every pass that leaves the state Running, the pass that
\* completes the startup included, the Mode is 1 or 2 and the relays and
\* motors hold the profile of that Mode (Mode 1: steam humidifier 1, condenser
\* humidifier, cooling-tower humidifier 1 on, both second humidifiers off,
\* motors 50/40/60/60 percent; Mode 2: all relays on, all motors 100 percent)
C3_RunningProfile ==
    (EndOfPass /\ currentState = STATE_RUNNING) =>
        \/ /\ currentPowerLevel = 1
           /\ relay = [STEAM_HUMID_1 |-> TRUE, STEAM_HUMID_2 |-> FALSE,
                       CONDENSOR_HUMID |-> TRUE, COOLTOWER_HUMID_1 |-> TRUE,
                       COOLTOWER_HUMID_2 |-> FALSE]
           /\ motor = [STEAM_FAN |-> MapPwm(50), TURBINE |-> MapPwm(40),
                       CONDENSOR |-> MapPwm(60), COOLTOWER |-> MapPwm(60)]
        \/ /\ currentPowerLevel = 2
           /\ relay = [STEAM_HUMID_1 |-> TRUE, STEAM_HUMID_2 |-> TRUE,
                       CONDENSOR_HUMID |-> TRUE, COOLTOWER_HUMID_1 |-> TRUE,
                       COOLTOWER_HUMID_2 |-> TRUE]
           /\ motor = [STEAM_FAN |-> MapPwm(100), TURBINE |-> MapPwm(100),
                       CONDENSOR |-> MapPwm(100), COOLTOWER |-> MapPwm(100)]

\* the end of the pass that completed the startup, in Mode 2
C3_Witness ==
    /\ EndOfPass
    /\ currentState = STATE_RUNNING
    /\ currentPowerLevel = 2
    /\ now - stateTimer = LOOP_DELAY
    /\ "COOLTOWER_HUMID_1" \in written

\* C4: when the Mode is 0 in a pass that finds the state StartingUp, whatever
\* the step and whether or not the next step is due, that pass enters
\* ShuttingDown with every relay, motor and the alarm off and the step cursor
\* at 1; Running is not entered between that StartingUp and the next Idle
C4_AbortedStartup ==
    /\ [](currentState = STATE_RUNNING =>
              \A i \in 1..Len(seqLog) : seqLog[i][1] # "SHUTDOWN")
    /\ [][/\ (pc = "control" /\ currentState = STATE_STARTING_UP
                 /\ currentPowerLevel' = 0) =>
                 /\ currentState' = STATE_SHUTTING_DOWN
                 /\ AllOff'
                 /\ sequence_step' = 1
                 /\ seqLog' = Append(seqLog, <<"SHUTDOWN", 1>>)
          /\ currentState = STATE_SHUTTING_DOWN =>
                 currentState' \in {STATE_SHUTTING_DOWN, STATE_IDLE}
       ]_vars

\* a startup aborted after its third action
C4_Witness ==
    /\ pc = "send"
    /\ currentState = STATE_SHUTTING_DOWN
    /\ seqLog = StartupLog(3) \o ShutdownLog(1)
    /\ AllOff

\* C5: whenever a pass ends in Idle, and at boot, all five relays are off,
\* all four motors are at 0 and the alarm is off
C5_IdleAllOff ==
    (pc = "recv" /\ currentState = STATE_IDLE) => AllOff

\* Idle again after a whole startup and a whole shutdown
C5_Witness ==
    /\ EndOfPass
    /\ currentState = STATE_IDLE
    /\ seqLog = StartupLog(4) \o ShutdownLog(4)

\* the first pass has parsed the stream
FirstParseDone == pc \in {"control", "send"} \/ iter > 0

\* C6: the frame the encoder writes for a status (key, v), v a non-negative
\* int, fed to the decoder and the parser, makes one payload ready, and the
\* parser gets the key and the value v back from it
C6_RoundTrip ==
    \A k \in RoundTripKeys, v \in RoundTripValues :
        line = EncodeFrame(k, v) =>
            /\ pc = "parse" => (newData <=> iter = 0)
            /\ newData => /\ CStr(receivedChars) = k \o <<":">> \o PrintInt(v)
                          /\ rx = <<"\n">>
            /\ (iter > 0 /\ pc # "recv") => rx = <<>>
            /\ FirstParseDone =>
                  /\ Len(parsedPairs) = 1
                  /\ parsedPairs[1][1] = k
                  /\ ToInt(parsedPairs[1][2]) = v
                  /\ k = KEY_ROD2 => rod2_pos = v
                  /\ k = KEY_ROD3 => rod3_pos = v

\* the largest int has made the round trip into rod3_pos
C6_Witness ==
    /\ line = EncodeFrame(KEY_ROD3, LONG_MAX)
    /\ pc = "control"
    /\ rod3_pos = LONG_MAX
    /\ ~newData

(***************************************************************************)
(* The sequencer with passes at the send and buzzer period, and readings   *)
(* at the alarm thresholds                                                 *)
(***************************************************************************)
MaxTimedIter == 7
TimedReadings == {<<15, 10>>, <<45, 35>>, <<70, 55>>}
TimedDelays == {LOOP_DELAY, UART_SEND_TO_D_INTERVAL, SEQUENCE_DELAY + LOOP_DELAY}

ArriveTimed ==
    /\ pc = "recv"
    /\ rx = <<>>
    /\ \E v \in TimedReadings : Arrive(RodFrame(v[1], v[2]))
    /\ UNCHANGED arrivals

StartPassTimed == iter < MaxTimedIter /\ Recv

EndPassTimed == \E d \in TimedDelays : Send(d)

NextTimed == ArriveTimed \/ StartPassTimed \/ Parse \/ Control \/ EndPassTimed

SpecTimed == Init /\ [][NextTimed]_vars

(***************************************************************************)
(* The visualizers with status lines arriving at any pass                  *)
(***************************************************************************)
MaxVisIter == 17
MaxVisArrivals == 1

\* the time from one pass to the next
VisDelays == {300, 600}

\* a line with the three pump statuses, every pair closed by ';'
StatusLine(v) ==
    <<START_MARKER>> \o KEY_PUMP1 \o <<":">> \o PrintInt(v) \o <<";">>
        \o KEY_PUMP2 \o <<":">> \o PrintInt(v) \o <<";">>
        \o KEY_PUMP3 \o <<":">> \o PrintInt(v) \o <<";", END_MARKER>>

\* the statuses the upstream node writes at a time, one line each
StatusBursts == {<<2>>, <<3>>, <<7>>, <<3, 0>>}

RECURSIVE JoinStatusLines(_)
JoinStatusLines(vs) ==
    IF Len(vs) = 1 THEN StatusLine(vs[1])
    ELSE StatusLine(vs[1]) \o <<"\n">> \o JoinStatusLines(Tail(vs))

ArriveStatus ==
    /\ vrx = <<>>
    /\ varrivals < MaxVisArrivals
    /\ \E vs \in StatusBursts : VisArrive(JoinStatusLines(vs))

VisPass == viter < MaxVisIter /\ \E d \in VisDelays : VisLoop(d)

InitVis == Boot(<<>>) /\ VisSetup("E")

NextVis == ArriveStatus \/ VisPass

SpecVis == InitVis /\ [][NextVis]_vars

(***************************************************************************)
(* The visualizers with lines of pairs in every order                      *)
(***************************************************************************)
MaxVisParseIter == 3
MaxVisParseArrivals == 2
MaxVisPairs == 3

\* the pairs a line is made of
VisTokens ==
    {[text |-> KEY_PUMP1 \o <<":", "2">>, key |-> KEY_PUMP1, value |-> 2],
     [text |-> KEY_PUMP2 \o <<":", "1">>, key |-> KEY_PUMP2, value |-> 1],
     [text |-> KEY_PUMP3 \o <<":", "3">>, key |-> KEY_PUMP3, value |-> 3],
     [text |-> <<"x", ":", "9">>, key |-> <<"x">>, value |-> 9]}

\* the lists of pairs with distinct keys
VisTokenLists ==
    {ts \in UNION {[1..n -> VisTokens] : n \in 1..MaxVisPairs} :
        \A i, j \in 1..Len(ts) : i # j => ts[i].key # ts[j].key}

RECURSIVE JoinVisTokens(_)
JoinVisTokens(ts) ==
    IF Len(ts) = 1 THEN ts[1].text
    ELSE ts[1].text \o <<";">> \o JoinVisTokens(Tail(ts))

\* the line `<key1:value1;key2:value2;...>` of the wire format
VisLine(ts) == <<START_MARKER>> \o JoinVisTokens(ts) \o <<END_MARKER>>

ArrivePairs ==
    /\ vrx = <<>>
    /\ varrivals < MaxVisParseArrivals
    /\ \E ts \in VisTokenLists : VisArrive(VisLine(ts))

VisPassParse == viter < MaxVisParseIter /\ VisLoop(100)

InitVisParse == Boot(<<>>) /\ \E n \in VisNodes : VisSetup(n)

NextVisParse == ArrivePairs \/ VisPassParse

SpecVisParse == InitVisParse /\ [][NextVisParse]_vars

(***************************************************************************)
(* The decoder against the bytes of the line                               *)
(***************************************************************************)
\* the bytes of line the decoder has read
Consumed == SubSeq(line, 1, Len(line) - Len(rx))

\* the last position of c in s before position e, 0 when there is none
LastBefore(s, c, e) ==
    LET I == {i \in 1..(e - 1) : s[i] = c}
    IN  IF I = {} THEN 0 ELSE CHOOSE i \in I : \A j \in I : j <= i

\* the first position of c in s after position p and before e, 0 when none
FirstBetween(s, c, p, e) ==
    LET I == {i \in (p + 1)..(e - 1) : s[i] = c}
    IN  IF I = {} THEN 0 ELSE CHOOSE i \in I : \A j \in I : i <= j

\* the start marker that opened the frame open before position e of s: the
\* first one after the last end marker; 0 when no frame is open there
OpenedAt(s, e) == FirstBetween(s, START_MARKER, LastBefore(s, END_MARKER, e), e)

Take(s, n) == SubSeq(s, 1, IF n < Len(s) THEN n ELSE Len(s))

\* the bytes between the start marker at o and position e
Between(s, o, e) == SubSeq(s, o + 1, e - 1)

\* C7: a payload is ready only after a start marker and then an end marker,
\* it holds only bytes received inside the frame, and no byte of a frame whose
\* start marker was not closed by its own end marker (a new start marker came
\* first) is delivered to the parser
C7_OnlyWholeFramesDelivered ==
    newData =>
        LET e == Len(Consumed)
            o == OpenedAt(Consumed, e)
        IN  /\ e > 0 /\ Consumed[e] = END_MARKER
            /\ o > 0
            /\ CStr(receivedChars) = Take(Between(Consumed, o, e), Len(CStr(receivedChars)))
            /\ \A i \in 1..Len(CStr(receivedChars)) : CStr(receivedChars)[i] # START_MARKER

\* C8: the decoder never stores more than MAX_DATA_LENGTH - 1 bytes; the bytes
\* of a longer frame beyond that are dropped, the frame stays open, and at the
\* end marker the payload is the first 49 bytes of the frame, the decoder is
\* outside any frame and ndx is 0
C8_TruncatedPayload ==
    /\ ndx <= MAX_DATA_LENGTH - 1
    /\ newData =>
          LET e == Len(Consumed)
              o == OpenedAt(Consumed, e)
          IN  /\ e > 0 /\ Consumed[e] = END_MARKER /\ o > 0
              /\ CStr(receivedChars) = Take(Between(Consumed, o, e), MAX_DATA_LENGTH - 1)
              /\ ~recvInProgress
              /\ ndx = 0
    /\ LET e == Len(Consumed) + 1
           o == OpenedAt(Consumed, e)
       IN  /\ recvInProgress <=> o > 0
           /\ recvInProgress =>
                 /\ ndx = Len(Take(Between(Consumed, o, e), MAX_DATA_LENGTH - 1))
                 /\ \A i \in 1..ndx : receivedChars[i - 1] = Consumed[o + i]

\* a payload cut to 49 bytes is ready
C8_Witness ==
    /\ newData
    /\ Len(CStr(receivedChars)) = MAX_DATA_LENGTH - 1
    /\ Len(Between(Consumed, OpenedAt(Consumed, Len(Consumed)), Len(Consumed)))
          > MAX_DATA_LENGTH - 1

\* the end marker in bytes that closes the frame open or opened first, 0 when
\* there is none
FirstClose(inFrame, bytes) ==
    LET e == Len(bytes) + 1
        o == IF inFrame THEN 0 ELSE FirstBetween(bytes, START_MARKER, 0, e)
    IN  IF ~inFrame /\ o = 0 THEN 0 ELSE FirstBetween(bytes, END_MARKER, o, e)

\* C9: one payload at most is held: a call of recvDataFromESP_B reads up to
\* the end marker that makes a payload ready and no further, so a frame that
\* follows is left unread in Serial2 while the payload waits for the parser;
\* the held payload is not touched until the parser has cleared the flag; a
\* call that finds no whole frame reads what is there and returns without a
\* payload instead of waiting
C9_OnePayloadHeld ==
    /\ [](newData => pc = "parse")
    /\ [][/\ (pc = "recv" /\ pc' = "parse") =>
                 LET k == FirstClose(recvInProgress, rx)
                 IN  IF k = 0
                     THEN ~newData' /\ rx' = <<>>
                     ELSE newData' /\ rx' = SubSeq(rx, k + 1, Len(rx))
          /\ (newData /\ pc' = pc) => (newData' /\ receivedChars' = receivedChars)
          /\ (newData /\ pc' # pc) => (~newData' /\ receivedChars' = receivedChars)
       ]_vars

\* a payload is ready while a second whole frame waits in Serial2
C9_Witness ==
    /\ newData
    /\ FirstClose(FALSE, rx) > 0

(***************************************************************************)
(* The parser against the pairs of a payload                               *)
(***************************************************************************)
\* the second frame of the stream has been parsed
SecondParseDone == (iter = 1 /\ pc \in {"control", "send"}) \/ iter >= 2

LastWithKey(ts, key) ==
    LET I == {i \in 1..Len(ts) : ts[i].key = key}
    IN  IF I = {} THEN 0 ELSE CHOOSE i \in I : \A j \in I : j <= i

\* the field after the payload ts when a value that is not a decimal number
\* counts as 0
FieldZeroed(ts, key, old) ==
    LET j == LastWithKey(ts, key)
    IN  IF j = 0 THEN old ELSE IF ts[j].numeric THEN ts[j].leading ELSE 0

PairCases ==
    {[bytes |-> PairStream(ts),
      zeroed2 |-> FieldZeroed(ts, "rod2", 45), zeroed3 |-> FieldZeroed(ts, "rod3", 35)]
        : ts \in TokenLists}

\* C10: every value that is not a decimal number sets its
\* recognised field to 0, an unrecognised key or a pair without ':' changes
\* nothing, the other pairs of the payload are extracted, the flag is cleared
C10_MalformedValueIsZero ==
    SecondParseDone =>
        \A c \in PairCases :
            line = c.bytes =>
                /\ rod2_pos = c.zeroed2
                /\ rod3_pos = c.zeroed3
                /\ ~newData

(***************************************************************************)
(* The visualizer's parser against the order of the pairs                  *)
(***************************************************************************)
\* the lists with the pairs of ts in every order
Orders(ts) ==
    {ps \in [1..Len(ts) -> {ts[i] : i \in 1..Len(ts)}] :
        \A i \in 1..Len(ts) : \E j \in 1..Len(ts) : ps[j] = ts[i]}

\* C11: the order of the pairs does not matter: after a pass that read a line
\* whose pairs have distinct keys, the status is what the parser makes of the
\* same pairs in any other order, so a field is extracted with the same value
\* whether it is the first, a middle or the last pair
C11_FieldOrder ==
    \A ts \in VisTokenLists :
        (viter > 0 /\ vLine = VisLine(ts)) =>
            \A ps \in Orders(ts) :
                LET r == parseData(node, StripMarkers(VisLine(ps)), 0, NoStatus)
                IN  pumpStatus = IF r.found THEN r.value ELSE vBefore

DecodedThisPass(v) == line = RodFrame(v[1], v[2]) /\ rx = <<"\n">>

\* C13: a frame that waits at the start of a pass is decoded and parsed
\* before the Mode is derived, the state transition of that pass is taken
\* with the Mode of the frame, and a frame sent in the pass carries the Mode
\* derived in that pass, not the one of the pass before
C13_OrderWithinPass ==
    /\ [](\A v \in Readings :
             DecodedThisPass(v) =>
                 /\ pc = "parse" => newData
                 /\ pc \in {"control", "send", "recv"} =>
                        rod2_pos = v[1] /\ rod3_pos = v[2] /\ ~newData
                 /\ pc \in {"send", "recv"} =>
                        currentPowerLevel = DerivePowerLevel(v[1], v[2])
                 /\ pc = "recv" =>
                        sent \in {<<>>, EncodeFrame(KEY_PWR, DerivePowerLevel(v[1], v[2]))})
    /\ []((pc = "recv" /\ sent # <<>>) => sent = EncodeFrame(KEY_PWR, currentPowerLevel))
    /\ [][\A v \in Readings :
             (DecodedThisPass(v) /\ pc = "control") =>
                 LET mode == DerivePowerLevel(v[1], v[2])
                 IN  /\ (currentState = STATE_IDLE /\ mode > 0) =>
                            (currentState' = STATE_STARTING_UP /\ sequence_step' = 1)
                     /\ (currentState = STATE_IDLE /\ mode = 0) =>
                            currentState' = STATE_IDLE
                     /\ (currentState \in {STATE_STARTING_UP, STATE_RUNNING} /\ mode = 0) =>
                            currentState' = STATE_SHUTTING_DOWN
                     /\ (currentState = STATE_RUNNING /\ mode > 0) =>
                            (currentState' = STATE_RUNNING /\
                             relay' = (IF mode = 2 THEN MaxRelays ELSE NormalRelays))
       ]_vars

\* the frame <rod2:45;rod3:35> was decoded in a pass that began with Mode 0,
\* and the frame sent in that pass carries 2
C13_Witness ==
    /\ pc = "recv"
    /\ DecodedThisPass(<<45, 35>>)
    /\ previousPowerLevel = 0
    /\ sent = EncodeFrame(KEY_PWR, 2)

(***************************************************************************)
(* Actuation while Running                                                 *)
(***************************************************************************)
\* C15: in a pass that begins and ends in Running the profile is written
\* again exactly when the Mode derived in the pass differs from the Mode of
\* the pass before; otherwise no relay and no motor is written and all keep
\* their values.  The lowest Mode ends Running in that pass
C15_ReissueOnChange ==
    [][(pc = "control" /\ currentState = STATE_RUNNING) =>
          /\ currentPowerLevel' = 0 <=> currentState' = STATE_SHUTTING_DOWN
          /\ currentPowerLevel' > 0 =>
                /\ currentState' = STATE_RUNNING
                /\ IF currentPowerLevel' # currentPowerLevel
                   THEN /\ AllOutputs \subseteq written'
                        /\ relay' = (IF currentPowerLevel' = 2 THEN MaxRelays ELSE NormalRelays)
                        /\ motor' = (IF currentPowerLevel' = 2 THEN MaxMotors ELSE NormalMotors)
                   ELSE /\ written' \cap AllOutputs = {}
                        /\ relay' = relay
                        /\ motor' = motor
      ]_vars

\* a pass in Running, after the one that completed the startup, in which the
\* Mode went from 1 to 2 and the profile was written again
C15_Witness ==
    /\ pc = "send"
    /\ currentState = STATE_RUNNING
    /\ stateTimer < now
    /\ previousPowerLevel = 1
    /\ currentPowerLevel = 2
    /\ AllOutputs \subseteq written
    /\ relay = MaxRelays

(***************************************************************************)
(* The alarm                                                               *)
(***************************************************************************)
\* Running with Mode 2 and both rods at or above the alarm thresholds
AlarmCondition ==
    /\ currentState = STATE_RUNNING
    /\ currentPowerLevel = 2
    /\ rod2_pos >= 70
    /\ rod3_pos >= 55

HasKey(payload, key) ==
    \E i \in 1..Len(payload) :
        /\ i = 1 \/ payload[i - 1] = ";"
        /\ i + Len(key) <= Len(payload)
        /\ SubSeq(payload, i, i + Len(key) - 1) = key
        /\ payload[i + Len(key)] = ":"

\* C17: rod2_pos (rod3_pos) changes only in the parse of a pass that decoded
\* a complete payload, and only when the payload has the key rod2 (rod3); a
\* pass with no bytes, with part of a frame, or with a payload without the
\* key leaves the reading as it was
C17_InputsChangeOnlyByParse ==
    [][/\ rod2_pos' # rod2_pos =>
             (pc = "parse" /\ newData /\ HasKey(CStr(receivedChars), KEY_ROD2))
       /\ rod3_pos' # rod3_pos =>
             (pc = "parse" /\ newData /\ HasKey(CStr(receivedChars), KEY_ROD3))
       /\ (pc = "parse" /\ ~newData) => (rod2_pos' = rod2_pos /\ rod3_pos' = rod3_pos)
      ]_vars

\* the payload rod2:45 has been parsed: rod2 is 45 and rod3 is still the 20
\* of the frame before
C17_Witness ==
    /\ pc = "control"
    /\ CStr(receivedChars) = KEY_ROD2 \o <<":", "4", "5">>
    /\ rod2_pos = 45
    /\ rod3_pos = 20

(***************************************************************************)
(* The stale link                                                          *)
(***************************************************************************)
\* the state machine of a pass that decoded nothing is about to run, no byte
\* is waiting, and the Mode held was derived from the readings held
StalePass == pc = "control" /\ rx = <<>> /\ iter > 0

\* C18 with a halting Sequencer: in a pass without a frame the readings and the Mode stay
\* as they were and the Sequencer halts: the state and the step cursor do
\* not change
C18_StaleLinkHalts ==
    [][/\ (pc = "parse" /\ ~newData) => (rod2_pos' = rod2_pos /\ rod3_pos' = rod3_pos)
       /\ StalePass =>
             /\ currentPowerLevel' = currentPowerLevel
             /\ currentState' = currentState
             /\ sequence_step' = sequence_step
      ]_vars

\* C18: in a pass without a frame the readings and the Mode stay as they
\* were.  The Sequencer halts only in Running and in Idle with Mode 0; a
\* staged sequence goes on by its timer, StartingUp into Running and
\* ShuttingDown into Idle, and Idle with a Mode above 0 starts up
C18_StaleLinkFreezesInputs ==
    [][/\ (pc = "parse" /\ ~newData) => (rod2_pos' = rod2_pos /\ rod3_pos' = rod3_pos)
       /\ StalePass =>
             /\ currentPowerLevel' = currentPowerLevel
             /\ (currentState = STATE_RUNNING \/
                 (currentState = STATE_IDLE /\ currentPowerLevel = 0)) =>
                    /\ currentState' = currentState
                    /\ sequence_step' = sequence_step
                    /\ relay' = relay
                    /\ motor' = motor
             /\ (currentState = STATE_IDLE /\ currentPowerLevel > 0) =>
                    (currentState' = STATE_STARTING_UP /\ sequence_step' = 1)
             /\ currentState \in {STATE_STARTING_UP, STATE_SHUTTING_DOWN} =>
                    /\ sequence_step' = IF now - stateTimer > SEQUENCE_DELAY
                                        THEN sequence_step + 1
                                        ELSE sequence_step
                    /\ currentState' =
                          IF sequence_step' = 4 /\ sequence_step = 3
                          THEN (IF currentState = STATE_STARTING_UP
                                THEN STATE_RUNNING ELSE STATE_IDLE)
                          ELSE currentState
      ]_vars

\* startup action 2 was executed in a pass that decoded nothing
C18_Witness ==
    /\ pc = "send"
    /\ rx = <<>>
    /\ currentState = STATE_STARTING_UP
    /\ sequence_step = 2
    /\ stateTimer = now

(***************************************************************************)
(* The animation                                                           *)
(***************************************************************************)
\* a pass of the visualizer's loop()
VisStep == viter' = viter + 1

\* C14: with a status other than Off the master position is one of the LED
\* indices 0..15; a pass of which the delay window has elapsed advances it
\* by one, from 15 to 0, and any other pass leaves it (at 0 when it was -1)
C14_MasterPositionInRange ==
    /\ [](masterPosition \in -1..(NUM_LEDS - 1))
    /\ [](pumpStatus # PUMP_OFF => masterPosition \in 0..(NUM_LEDS - 1))
    /\ [][(VisStep /\ pumpStatus' # PUMP_OFF) =>
             LET p0 == IF masterPosition = -1 THEN 0 ELSE masterPosition
             IN  masterPosition' =
                     IF vnow - lastAnimationTime >= animationSpeedDelay'
                     THEN (IF p0 = NUM_LEDS - 1 THEN 0 ELSE p0 + 1)
                     ELSE p0
       ]_vars

\* the position has gone from 15 to 0 in a pass that drew a frame
C14_Witness ==
    /\ pumpStatus = PUMP_SHUTTING_DOWN
    /\ masterPosition = 0
    /\ ledWritten = Leds
    /\ led = DrawnFrames[NUM_LEDS - 1]

\* C19: the first pass that sees the status Off, at boot or after another
\* status, writes zero to every LED and sets the position to -1; every later
\* pass while the status stays Off writes nothing and leaves the position
\* at -1
C19_OffWrittenOnce ==
    [][(VisStep /\ pumpStatus' = PUMP_OFF) =>
          IF pumpStatus # PUMP_OFF \/ viter = 0
          THEN /\ ledWritten' = Leds
               /\ led' = [k \in Leds |-> 0]
               /\ masterPosition' = -1
          ELSE /\ ledWritten' = {}
               /\ led' = led
               /\ masterPosition = -1
               /\ masterPosition' = -1
      ]_vars

\* the status went from ShuttingDown to Off and the LEDs were written to zero
C19_Witness ==
    /\ pumpStatus = PUMP_OFF
    /\ vBefore = PUMP_SHUTTING_DOWN
    /\ ledWritten = Leds
    /\ led = [k \in Leds |-> 0]
    /\ masterPosition = -1

\* C20: the status stored is always one of Off, Starting, On, ShuttingDown,
\* whatever status values the lines received carry
C20_StatusInRange == pumpStatus \in PumpStatus

(***************************************************************************)
(* The edges of the state machine                                          *)
(***************************************************************************)
\* the five edges of switch (currentState) and the staged sequences
StateEdges ==
    {<<STATE_IDLE, STATE_STARTING_UP>>,
     <<STATE_STARTING_UP, STATE_RUNNING>>,
     <<STATE_STARTING_UP, STATE_SHUTTING_DOWN>>,
     <<STATE_RUNNING, STATE_SHUTTING_DOWN>>,
     <<STATE_SHUTTING_DOWN, STATE_IDLE>>}

\* C21: the state changes at most once in a pass (in the switch), and every
\* change from the end of one pass to the end of the next is one of the five
\* edges Idle -> StartingUp, StartingUp -> Running, StartingUp ->
\* ShuttingDown, Running -> ShuttingDown, ShuttingDown -> Idle; there is no
\* edge Idle -> Running, Running -> Idle, ShuttingDown -> StartingUp or
\* ShuttingDown -> Running
C21_FiveEdges ==
    [][/\ currentState' # currentState =>
              /\ pc = "control"
              /\ <<currentState, currentState'>> \in StateEdges
       /\ ~(currentState = STATE_IDLE /\ currentState' = STATE_RUNNING)
       /\ ~(currentState = STATE_RUNNING /\ currentState' = STATE_IDLE)
       /\ ~(currentState = STATE_SHUTTING_DOWN
               /\ currentState' \in {STATE_STARTING_UP, STATE_RUNNING})
      ]_vars

\* a pass has just taken the edge Running -> ShuttingDown, after a whole
\* startup
C21_Witness ==
    /\ pc = "send"
    /\ currentState = STATE_SHUTTING_DOWN
    /\ seqLog = StartupLog(4) \o ShutdownLog(1)
    /\ stateTimer = now

(***************************************************************************)
(* Specification of the running loop: loop() is called again and again,    *)
(* every call returns, and millis() has advanced when the next one starts  *)
(***************************************************************************)
MaxLiveIter == 6
MaxLiveArrivals == 3
LiveReadings == {<<15, 10>>, <<45, 35>>, <<70, 55>>}
LiveDelays == {SEQUENCE_DELAY \div 2, SEQUENCE_DELAY + LOOP_DELAY}

\* the passes a shutdown takes at most: three timing windows, each over in
\* the first pass that starts more than SEQUENCE_DELAY after the step before
WindowPasses == (SEQUENCE_DELAY \div (SEQUENCE_DELAY \div 2)) + 1
ShutdownPasses == 3 * WindowPasses

\* a whole frame arrives between two passes, the line being idle
ArriveLive ==
    /\ pc = "recv"
    /\ rx = <<>>
    /\ arrivals < MaxLiveArrivals
    /\ arrivals' = arrivals + 1
    /\ \E v \in LiveReadings : Arrive(RodFrame(v[1], v[2]))

\* the loop is followed for MaxLiveIter passes, and a shutdown under way
\* then is followed to its end
PassAllowed ==
    \/ iter < MaxLiveIter
    \/ currentState = STATE_SHUTTING_DOWN /\ iter < MaxLiveIter + ShutdownPasses

StartPassLive == PassAllowed /\ Recv

EndPassLive == \E d \in LiveDelays : Send(d)

NextLive == ArriveLive \/ StartPassLive \/ Parse \/ Control \/ EndPassLive

\* loop() moves on from one of its four steps to the next; the steps of
\* NextLive that do so are StartPassLive, Parse, Control and EndPassLive,
\* each of which can run whenever control is at it
Advance ==
    /\ pc = "recv" => PassAllowed
    /\ pc' = CASE pc = "recv" -> "parse"
                [] pc = "parse" -> "control"
                [] pc = "control" -> "send"
                [] pc = "send" -> "recv"

\* the Arduino core calls loop() forever and each of its statements returns;
\* the upstream node may fall silent
LoopRuns == WF_pc(Advance)

SpecLive == Init /\ [][NextLive]_vars /\ LoopRuns

\* C22: once ShuttingDown is entered (with the step cursor at 1 and the
\* timer restarted) the state stays ShuttingDown until it becomes Idle,
\* whatever the Mode is; the cursor advances by one exactly in the passes
\* that find more than SEQUENCE_DELAY elapsed since the step before, the
\* Mode of the pass playing no part; the step that makes the cursor 4 makes
\* the state Idle; while the loop keeps running Idle is reached; and
\* StartingUp is entered from Idle only
C22_ShutdownRunsToIdle ==
    /\ [](currentState = STATE_SHUTTING_DOWN => sequence_step \in 1..3)
    /\ [][/\ (currentState # STATE_SHUTTING_DOWN /\ currentState' = STATE_SHUTTING_DOWN) =>
                 /\ sequence_step' = 1
                 /\ stateTimer' = now
          /\ currentState = STATE_SHUTTING_DOWN =>
                 /\ currentState' \in {STATE_SHUTTING_DOWN, STATE_IDLE}
                 /\ IF pc = "control" /\ now - stateTimer > SEQUENCE_DELAY
                    THEN /\ sequence_step' = sequence_step + 1
                         /\ stateTimer' = now
                         /\ currentState' = STATE_IDLE <=> sequence_step' = 4
                    ELSE UNCHANGED <<currentState, sequence_step, stateTimer>>
          /\ (currentState # STATE_STARTING_UP /\ currentState' = STATE_STARTING_UP) =>
                 currentState = STATE_IDLE
       ]_vars
    /\ (currentState = STATE_SHUTTING_DOWN) ~> (currentState = STATE_IDLE)

\* a frame of Mode 2 was parsed while shutting down, the window of step 3
\* has passed, and the pass has made the state Idle all the same
C22_Witness ==
    /\ pc = "send"
    /\ currentState = STATE_IDLE
    /\ seqLog = StartupLog(4) \o ShutdownLog(4)
    /\ currentPowerLevel = 2
    /\ stateTimer = now

(***************************************************************************)
(* The outputs during the staged sequences                                 *)
(***************************************************************************)
\* the outputs after the startup actions 1..k, everything else off
StartupRelays(k) ==
    [p \in RelayPins |->
        \/ p = "STEAM_HUMID_1"
        \/ p = "CONDENSOR_HUMID" /\ k >= 3]

StartupMotors(k) ==
    [c \in PwmChannels |->
        CASE c = "STEAM_FAN" -> (50 * 255) \div 100
          [] c = "TURBINE" -> IF k >= 2 THEN (40 * 255) \div 100 ELSE 0
          [] c = "CONDENSOR" -> IF k >= 3 THEN (60 * 255) \div 100 ELSE 0
          [] c = "COOLTOWER" -> 0]

\* C23: at the end of every pass that leaves the state StartingUp with the
\* step cursor at k, k is 1, 2 or 3 and exactly the stages 1..k are on at
\* their startup levels: steam humidifier 1 on and steam fan at 50 percent;
\* turbine at 40 percent iff k >= 2; condenser humidifier on and condenser
\* pump at 60 percent iff k >= 3; cooling-tower fan at 0, both cooling-tower
\* humidifiers, steam humidifier 2 and the alarm off
C23_StartupStages ==
    (EndOfPass /\ currentState = STATE_STARTING_UP) =>
        /\ sequence_step \in 1..3
        /\ relay = StartupRelays(sequence_step)
        /\ motor = StartupMotors(sequence_step)
        /\ ~buzzerPin /\ ~isBuzzerOn

\* the end of the pass that executed startup action 3
C23_Witness ==
    /\ EndOfPass
    /\ currentState = STATE_STARTING_UP
    /\ sequence_step = 3
    /\ "CONDENSOR" \in written
    /\ seqLog = StartupLog(3)

\* the pins and duties of all actuator outputs
Outputs == <<relay, motor, buzzerPin>>

\* C24: at the end of every pass that leaves the state ShuttingDown, the
\* pass that entered it included, every relay is off, every motor duty is 0
\* and the alarm is off; a pass in ShuttingDown that executes a staged
\* shutdown action (2, 3 or 4) leaves every output as it was, and the pass
\* that executes action 1 leaves them as turnEverythingOff() set them
C24_ShutdownAllOff ==
    /\ []((EndOfPass /\ currentState = STATE_SHUTTING_DOWN) => AllOff)
    /\ []((pc = "send" /\ currentState = STATE_SHUTTING_DOWN) => AllOff)
    /\ [][/\ (currentState = STATE_SHUTTING_DOWN /\ seqLog' # seqLog) =>
                 /\ Outputs' = Outputs
                 /\ AllOff'
          /\ (currentState # STATE_SHUTTING_DOWN
                 /\ currentState' = STATE_SHUTTING_DOWN) =>
                 /\ seqLog' = Append(seqLog, <<"SHUTDOWN", 1>>)
                 /\ AllOff'
       ]_vars

\* the end of the pass that executed shutdown action 3, in a shutdown out
\* of Running in which the alarm has sounded
C24_Witness ==
    /\ EndOfPass
    /\ currentState = STATE_SHUTTING_DOWN
    /\ sequence_step = 3
    /\ "CONDENSOR" \in written
    /\ seqLog = StartupLog(4) \o ShutdownLog(3)
    /\ buzzerTimer > 0

====
